---- MODULE Spec2Model ----
(***************************************************************************)
(* Model of dimers/make_dimer_from_monomers.py: the module-level loop that *)
(* pairs every .xyz monomer with every .xyz cluster, and make_dimer_xyz,   *)
(* which reads both structures, centres them, rotates and offsets the      *)
(* cluster, concatenates them and writes the dimer.                        *)
(*                                                                         *)
(* File names are sequences of one-character strings, so that endswith,    *)
(* splitext and the f-string that builds the output name are computed.     *)
(* Coordinates are exact rationals: an Atoms object carries integer        *)
(* position numerators and one common denominator `den`.                   *)
(***************************************************************************)
EXTENDS Integers, Sequences, FiniteSets, TLC

(* ------------------------------ bounds --------------------------------- *)
\* largest number of atoms in a structure drawn for the geometry harness
MaxAtoms == 2
\* largest number of entries in a listed directory
MaxFiles == 2
\* number of times the script is run in one behaviour
MaxRuns == 2

(* --------------------------- character strings ------------------------- *)
XYZ == <<".", "x", "y", "z">>

\* str.endswith(suffix)
EndsWith(s, suffix) ==
    /\ Len(s) >= Len(suffix)
    /\ SubSeq(s, Len(s) - Len(suffix) + 1, Len(s)) = suffix

\* str.rfind('.'), 1-based, 0 when there is no dot
RFindDot(s) ==
    IF \E i \in 1..Len(s) : s[i] = "."
    THEN CHOOSE i \in 1..Len(s) : s[i] = "." /\ \A j \in (i+1)..Len(s) : s[j] # "."
    ELSE 0

\* os.path.splitext(p)[0] for a name without directory separators: the name
\* is cut at its last dot unless only dots precede that dot.
SplitExtBase(p) ==
    LET dotIndex == RFindDot(p)
    IN  IF dotIndex > 0 /\ \E k \in 1..(dotIndex - 1) : p[k] # "."
        THEN SubSeq(p, 1, dotIndex - 1)
        ELSE p

Digit(d) == CASE d = 0 -> "0" [] d = 1 -> "1" [] d = 2 -> "2" [] d = 3 -> "3"
              [] d = 4 -> "4" [] d = 5 -> "5" [] d = 6 -> "6" [] d = 7 -> "7"
              [] d = 8 -> "8" [] d = 9 -> "9"

RECURSIVE IntStr(_)
IntStr(n) == IF n < 0 THEN <<"-">> \o IntStr(0 - n)
             ELSE IF n < 10 THEN <<Digit(n)>>
             ELSE IntStr(n \div 10) \o <<Digit(n % 10)>>

\* f'{x}' for a float x with an integral value: repr gives "<int>.0"
FormatFloat(x) == IntStr(x) \o <<".", "0">>

\* f'{axis}' for a list of three ints: "[1, 0, 0]"
FormatAxis(v) ==
    <<"[">> \o IntStr(v[1]) \o <<",", " ">> \o IntStr(v[2]) \o <<",", " ">>
            \o IntStr(v[3]) \o <<"]">>

\* line 58
OutputFilename(molecule_file, cluster_file, distance, angle) ==
    SplitExtBase(molecule_file) \o <<"_">> \o SplitExtBase(cluster_file)
        \o <<"_", "D">> \o FormatFloat(distance)
        \o <<"_", "A">> \o FormatFloat(angle) \o XYZ

\* line 59
Comment(molecule_file, cluster_file, distance, angle, axis) ==
    SplitExtBase(molecule_file) \o <<" + ">> \o SplitExtBase(cluster_file)
        \o <<": Distance = ">> \o FormatFloat(distance)
        \o <<", Angle = ">> \o FormatFloat(angle)
        \o <<", Axis = ">> \o FormatAxis(axis)

(* ------------------------------ geometry ------------------------------- *)
Zero3 == <<0, 0, 0>>
VAdd(a, b) == <<a[1] + b[1], a[2] + b[2], a[3] + b[3]>>
VSub(a, b) == <<a[1] - b[1], a[2] - b[2], a[3] - b[3]>>
VScale(k, a) == <<k * a[1], k * a[2], k * a[3]>>
Dot(a, b) == a[1] * b[1] + a[2] * b[2] + a[3] * b[3]
Cross(a, b) == <<a[2] * b[3] - a[3] * b[2],
                 a[3] * b[1] - a[1] * b[3],
                 a[1] * b[2] - a[2] * b[1]>>

\* atomic masses of the structure library, rounded to whole mass units
Mass(symbol) == CASE symbol = "H" -> 1 [] symbol = "O" -> 16 [] symbol = "Ar" -> 40

RECURSIVE SumMass(_)
SumMass(symbols) ==
    IF symbols = <<>> THEN 0 ELSE Mass(Head(symbols)) + SumMass(Tail(symbols))

RECURSIVE SumMoment(_, _)
SumMoment(symbols, positions) ==
    IF symbols = <<>> THEN Zero3
    ELSE VAdd(VScale(Mass(Head(symbols)), Head(positions)),
              SumMoment(Tail(symbols), Tail(positions)))

\* Atoms.get_center_of_mass(): masses @ positions / masses.sum(), a rational
\* vector num / den
CenterOfMass(a) ==
    [num |-> SumMoment(a.symbols, a.positions), den |-> a.den * SumMass(a.symbols)]

\* Atoms.translate(num / den): every position is displaced by the vector
Translate(a, num, den) ==
    [a EXCEPT !.positions = [i \in 1..Len(a.positions) |->
                                VAdd(VScale(den, a.positions[i]), VScale(a.den, num))],
              !.den = a.den * den]

RECURSIVE SumPositions(_)
SumPositions(positions) ==
    IF positions = <<>> THEN Zero3
    ELSE VAdd(Head(positions), SumPositions(Tail(positions)))

\* mutant of Centre: the centre of geometry instead of the centre of mass
Centre_Geometric(a) ==
    Translate(a, VScale(0 - 1, SumPositions(a.positions)), a.den * Len(a.positions))

\* lines 43-44: x.translate(-x.get_center_of_mass())
Centre(a) ==
    LET com == CenterOfMass(a)
    IN  Translate(a, VScale(0 - 1, com.num), com.den)

Abs(x) == IF x < 0 THEN 0 - x ELSE x
\* norm of an axis-parallel vector
Norm(v) == Abs(v[1]) + Abs(v[2]) + Abs(v[3])
Cos(angle) == CASE angle = 0 -> 1 [] angle = 90 -> 0 [] angle = 180 -> 0 - 1 [] angle = 270 -> 0
Sin(angle) == CASE angle = 0 -> 0 [] angle = 90 -> 1 [] angle = 180 -> 0 [] angle = 270 -> 0 - 1

\* Atoms.rotate(axis, angle, rotate_cell=False) about the origin:
\* p' = c p - cross(p, s v) + dot(p, v) (1 - c) v, with v the normalised axis
Rotate(a, axis, angle) ==
    LET n == Norm(axis)
        v == <<axis[1] \div n, axis[2] \div n, axis[3] \div n>>
        c == Cos(angle)
        s == Sin(angle)
        rot(p) == VAdd(VSub(VScale(c, p), Cross(p, VScale(s, v))),
                       VScale(Dot(p, v) * (1 - c), v))
    IN  [a EXCEPT !.positions = [i \in 1..Len(a.positions) |-> rot(a.positions[i])]]

\* line 50: cluster.translate([0, 0, distance])
Offset(a, distance) == Translate(a, <<0, 0, distance>>, 1)

\* mutant of Add: the operands are taken in the other order
Add_ClusterFirst(m, c) ==
    [symbols   |-> c.symbols \o m.symbols,
     positions |-> [i \in 1..Len(c.positions) |-> VScale(m.den, c.positions[i])]
                   \o [i \in 1..Len(m.positions) |-> VScale(c.den, m.positions[i])],
     den       |-> m.den * c.den]

\* line 53: molecule + cluster (Atoms.__add__: a copy of the left operand
\* extended by the right one), on a common denominator
Add(m, c) ==
    [symbols   |-> m.symbols \o c.symbols,
     positions |-> [i \in 1..Len(m.positions) |-> VScale(c.den, m.positions[i])]
                   \o [i \in 1..Len(c.positions) |-> VScale(m.den, c.positions[i])],
     den       |-> m.den * c.den]

(* ------------------------------ XYZ files ------------------------------ *)
\* what a path of the file system can hold besides an XYZ file
Missing == [kind |-> "missing"]
Unparseable == [kind |-> "unparseable"]
Empty == [kind |-> "empty"]

XYZFile(symbols, positions) ==
    [kind |-> "xyz", natoms |-> Len(symbols), comment |-> <<>>, symbols |-> symbols,
     positions |-> positions, den |-> 1]

\* ase.io.read of an XYZ file: the count line, the comment line, then
\* `natoms` atom lines
ReadXYZ(f) ==
    [symbols   |-> SubSeq(f.symbols, 1, f.natoms),
     positions |-> SubSeq(f.positions, 1, f.natoms),
     den       |-> f.den]

\* ase.io.write of an Atoms object with a comment
WriteXYZ(atoms, comment) ==
    [kind |-> "xyz", natoms |-> Len(atoms.symbols), comment |-> comment,
     symbols |-> atoms.symbols, positions |-> atoms.positions, den |-> atoms.den]

(* ------------------------------ file names ----------------------------- *)
a_xyz   == <<"a", ".", "x", "y", "z">>
a_b_xyz == <<"a", "_", "b", ".", "x", "y", "z">>
n_txt   == <<"n", ".", "t", "x", "t">>
c_xyz   == <<"c", ".", "x", "y", "z">>
b_c_xyz == <<"b", "_", "c", ".", "x", "y", "z">>
c_XYZ   == <<"c", ".", "X", "Y", "Z">>

MoleculeNames == {a_xyz, a_b_xyz, n_txt}
ClusterNames == {c_xyz, b_c_xyz, c_XYZ}
AllNames == MoleculeNames \cup ClusterNames

\* the structure stored under each name when the file is present and valid
Catalog(name) ==
    CASE name = a_xyz   -> XYZFile(<<"O", "H", "H">>, <<<<0, 0, 0>>, <<1, 0, 1>>, <<-1, 0, 1>>>>)
      [] name = a_b_xyz -> XYZFile(<<"H", "H">>, <<<<0, 0, 0>>, <<0, 1, 0>>>>)
      [] name = c_xyz   -> XYZFile(<<"Ar", "Ar">>, <<<<0, 0, 0>>, <<0, 0, 3>>>>)
      [] name = b_c_xyz -> XYZFile(<<"Ar", "H">>, <<<<1, 2, 0>>, <<0, 0, 1>>>>)
      [] OTHER          -> Unparseable

\* a directory: its entries in the order the file system lists them (the
\* order is arbitrary, and the same each time an unchanged directory is listed)
Directories(names) ==
    {d \in UNION {[1..n -> names] : n \in 0..MaxFiles} :
        \A i, j \in 1..Len(d) : i # j => d[i] # d[j]}

Range(s) == {s[i] : i \in 1..Len(s)}

\* the files of ../<dir> under the names that ./<dir> lists: each may be
\* absent, unparseable or the catalogued structure. A name that ./<dir> does
\* not list is never looked up and is left out; a name without the .xyz
\* suffix holds no structure.
ParentContents(names, listing) ==
    {f \in [AllNames -> {Missing, Unparseable} \cup {Catalog(n) : n \in names}] :
        \A n \in AllNames :
            /\ n \notin Range(listing) => f[n] = Missing
            /\ n \in Range(listing) => f[n] \in {Missing, Unparseable, Catalog(n)}
            /\ (n \in Range(listing) /\ ~EndsWith(n, XYZ)) => f[n] = Unparseable}

(* ------------------------------- presets ------------------------------- *)
\* lines 75 and 76
Presets == <<[distance |-> 4, angle |-> 0, axis |-> <<1, 0, 0>>],
             [distance |-> 4, angle |-> 90, axis |-> <<0, 0, 1>>]>>

\* Python's None, for a record-valued and for a string-valued variable
None == [kind |-> "None"]
NoName == <<>>

Args(mf, cf, preset) ==
    [molecule_file |-> mf, cluster_file |-> cf, distance |-> preset.distance,
     angle |-> preset.angle, axis |-> preset.axis]

(* -------------------------------- state -------------------------------- *)
VARIABLES
    cwdMolecules,    \* ./molecules, as os.listdir returns it
    cwdClusters,     \* ./clusters
    parentMolecules, \* ../molecules: name -> file
    parentClusters,  \* ../clusters
    outputs,         \* the .xyz files of the working directory: name -> file
    pc,              \* position of the script
    run,             \* which run of the script this is
    molIter,         \* rest of the outer for loop
    cluIter,         \* rest of the inner for loop
    molecule_file,   \* loop variables
    cluster_file,
    call,            \* 1: the call on line 75, 2: the call on line 76
    args,            \* parameters of make_dimer_xyz
    molecule,        \* locals of make_dimer_xyz
    cluster,
    dimer,
    output_filename,
    comment,
    printed,         \* standard output of this run
    error,           \* the exception that ended the run
    reads,           \* history: paths this run has opened for reading
    written,         \* history: (job, file name) of every finished write of this run
    prevOutputs      \* history: outputs as the previous run left them

vars == <<cwdMolecules, cwdClusters, parentMolecules, parentClusters, outputs, pc, run,
          molIter, cluIter, molecule_file, cluster_file, call, args, molecule, cluster,
          dimer, output_filename, comment, printed, error, reads, written, prevOutputs>>

fileSystem == <<cwdMolecules, cwdClusters, parentMolecules, parentClusters>>
loopVars == <<molIter, cluIter, molecule_file, cluster_file, call>>
locals == <<molecule, cluster, dimer, output_filename, comment>>
history == <<reads, written, prevOutputs>>

NoFiles == [n \in {} |-> Empty]

ProcessStart ==
    /\ pc = "list_mol"
    /\ molIter = <<>> /\ cluIter = <<>>
    /\ molecule_file = NoName /\ cluster_file = NoName
    /\ call = 0 /\ args = None
    /\ molecule = None /\ cluster = None /\ dimer = None
    /\ output_filename = NoName /\ comment = NoName
    /\ printed = <<>> /\ error = "none"
    /\ reads = {} /\ written = {}

Init ==
    /\ cwdMolecules \in Directories(MoleculeNames)
    /\ cwdClusters \in Directories(ClusterNames)
    /\ parentMolecules \in ParentContents(MoleculeNames, cwdMolecules)
    /\ parentClusters \in ParentContents(ClusterNames, cwdClusters)
    /\ outputs = NoFiles
    /\ run = 1
    /\ prevOutputs = NoFiles
    /\ ProcessStart

(* ------------------------- module-level loop --------------------------- *)
\* mutant of ListMolecules: the outer loop lists the clusters directory
ListMolecules_ListsClusters ==
    /\ pc = "list_mol"
    /\ molIter' = cwdClusters
    /\ pc' = "next_mol"
    /\ UNCHANGED <<fileSystem, outputs, run, cluIter, molecule_file, cluster_file, call,
                   args, locals, printed, error, history>>

\* line 70: os.listdir(molecules_dir)
ListMolecules ==
    /\ pc = "list_mol"
    /\ molIter' = cwdMolecules
    /\ pc' = "next_mol"
    /\ UNCHANGED <<fileSystem, outputs, run, cluIter, molecule_file, cluster_file, call,
                   args, locals, printed, error, history>>

\* lines 70-71: next monomer name, kept only if it ends in .xyz
NextMolecule ==
    /\ pc = "next_mol"
    /\ IF molIter = <<>>
       THEN /\ pc' = "done"
            /\ UNCHANGED <<molIter, molecule_file>>
       ELSE /\ molecule_file' = Head(molIter)
            /\ molIter' = Tail(molIter)
            /\ pc' = IF EndsWith(Head(molIter), XYZ) THEN "list_clu" ELSE "next_mol"
    /\ UNCHANGED <<fileSystem, outputs, run, cluIter, cluster_file, call, args, locals,
                   printed, error, history>>

\* line 72: os.listdir(clusters_dir)
ListClusters ==
    /\ pc = "list_clu"
    /\ cluIter' = cwdClusters
    /\ pc' = "next_clu"
    /\ UNCHANGED <<fileSystem, outputs, run, molIter, molecule_file, cluster_file, call,
                   args, locals, printed, error, history>>

\* mutant of NextCluster: the test of line 73 is missing
NextCluster_NoFilter ==
    /\ pc = "next_clu"
    /\ IF cluIter = <<>>
       THEN /\ pc' = "next_mol"
            /\ UNCHANGED <<cluIter, cluster_file, call, args>>
       ELSE /\ cluster_file' = Head(cluIter)
            /\ cluIter' = Tail(cluIter)
            /\ call' = 1
            /\ args' = Args(molecule_file, Head(cluIter), Presets[1])
            /\ pc' = "read_mol"
    /\ UNCHANGED <<fileSystem, outputs, run, molIter, molecule_file, locals, printed,
                   error, history>>

\* lines 72-75: next cluster name; if it ends in .xyz, the call on line 75
NextCluster ==
    /\ pc = "next_clu"
    /\ IF cluIter = <<>>
       THEN /\ pc' = "next_mol"
            /\ UNCHANGED <<cluIter, cluster_file, call, args>>
       ELSE /\ cluster_file' = Head(cluIter)
            /\ cluIter' = Tail(cluIter)
            /\ IF EndsWith(Head(cluIter), XYZ)
               THEN /\ call' = 1
                    /\ args' = Args(molecule_file, Head(cluIter), Presets[1])
                    /\ pc' = "read_mol"
               ELSE /\ pc' = "next_clu"
                    /\ UNCHANGED <<call, args>>
    /\ UNCHANGED <<fileSystem, outputs, run, molIter, molecule_file, locals, printed,
                   error, history>>

(* ---------------------------- make_dimer_xyz --------------------------- *)
Raise(exception) ==
    /\ pc' = "aborted"
    /\ error' = exception

ReadError(f) == IF f = Missing THEN "FileNotFoundError" ELSE "ParseError"

\* line 39: read(f'../molecules/{molecule_file}')
ReadMolecule ==
    /\ pc = "read_mol"
    /\ reads' = reads \cup {<<"../molecules/", args.molecule_file>>}
    /\ LET f == parentMolecules[args.molecule_file]
       IN  IF f \in {Missing, Unparseable}
           THEN Raise(ReadError(f)) /\ UNCHANGED molecule
           ELSE molecule' = ReadXYZ(f) /\ pc' = "read_clu" /\ UNCHANGED error
    /\ UNCHANGED <<fileSystem, outputs, run, loopVars, args, cluster, dimer,
                   output_filename, comment, printed, written, prevOutputs>>

\* mutant of ReadCluster: a cluster that cannot be read is skipped and the
\* loop goes on
ReadCluster_Isolated ==
    /\ pc = "read_clu"
    /\ reads' = reads \cup {<<"../clusters/", args.cluster_file>>}
    /\ LET f == parentClusters[args.cluster_file]
       IN  IF f \in {Missing, Unparseable}
           THEN /\ pc' = "next_clu"
                /\ molecule' = None
                /\ UNCHANGED <<cluster, error>>
           ELSE /\ cluster' = ReadXYZ(f)
                /\ pc' = "center"
                /\ UNCHANGED <<molecule, error>>
    /\ UNCHANGED <<fileSystem, outputs, run, loopVars, args, dimer,
                   output_filename, comment, printed, written, prevOutputs>>

\* line 40: read(f'../clusters/{cluster_file}')
ReadCluster ==
    /\ pc = "read_clu"
    /\ reads' = reads \cup {<<"../clusters/", args.cluster_file>>}
    /\ LET f == parentClusters[args.cluster_file]
       IN  IF f \in {Missing, Unparseable}
           THEN Raise(ReadError(f)) /\ UNCHANGED cluster
           ELSE cluster' = ReadXYZ(f) /\ pc' = "center" /\ UNCHANGED error
    /\ UNCHANGED <<fileSystem, outputs, run, loopVars, args, molecule, dimer,
                   output_filename, comment, printed, written, prevOutputs>>

\* lines 43-44
CentreBoth ==
    /\ pc = "center"
    /\ molecule' = Centre(molecule)
    /\ cluster' = Centre(cluster)
    /\ pc' = "rotate"
    /\ UNCHANGED <<fileSystem, outputs, run, loopVars, args, dimer, output_filename,
                   comment, printed, error, history>>

\* line 47
RotateCluster ==
    /\ pc = "rotate"
    /\ cluster' = Rotate(cluster, args.axis, args.angle)
    /\ pc' = "offset"
    /\ UNCHANGED <<fileSystem, outputs, run, loopVars, args, molecule, dimer,
                   output_filename, comment, printed, error, history>>

\* line 50
OffsetCluster ==
    /\ pc = "offset"
    /\ cluster' = Offset(cluster, args.distance)
    /\ pc' = "combine"
    /\ UNCHANGED <<fileSystem, outputs, run, loopVars, args, molecule, dimer,
                   output_filename, comment, printed, error, history>>

\* line 53
Combine ==
    /\ pc = "combine"
    /\ dimer' = Add(molecule, cluster)
    /\ pc' = "name"
    /\ UNCHANGED <<fileSystem, outputs, run, loopVars, args, molecule, cluster,
                   output_filename, comment, printed, error, history>>

\* lines 56-59
MakeNames ==
    /\ pc = "name"
    /\ output_filename' = OutputFilename(args.molecule_file, args.cluster_file,
                                         args.distance, args.angle)
    /\ comment' = Comment(args.molecule_file, args.cluster_file, args.distance,
                          args.angle, args.axis)
    /\ pc' = "write"
    /\ UNCHANGED <<fileSystem, outputs, run, loopVars, args, molecule, cluster, dimer,
                   printed, error, history>>

\* mutant of Store: an existing XYZ file is appended to, not replaced
Store_Append(files, name, file) ==
    [n \in DOMAIN files \cup {name} |->
        IF n # name THEN files[n]
        ELSE IF n \in DOMAIN files /\ files[n].kind = "xyz" /\ file.kind = "xyz"
             THEN [file EXCEPT !.symbols = files[n].symbols \o file.symbols,
                               !.positions = files[n].positions \o file.positions]
             ELSE file]

\* the working directory after `name` has been given the content `file`
Store(files, name, file) ==
    [n \in DOMAIN files \cup {name} |-> IF n = name THEN file ELSE files[n]]

\* what line 58 builds the name from
Job(a) == <<SplitExtBase(a.molecule_file), SplitExtBase(a.cluster_file),
            a.distance, a.angle>>

\* line 62: write(output_filename, dimer, comment=comment) opens the file for
\* writing, which creates or truncates it, and then serialises the structure.
\* The open may fail, leaving the directory as it was; the serialisation may
\* fail, leaving the truncated file; or the write completes.
WriteDimer ==
    /\ pc = "write"
    /\ \/ /\ Raise("WriteError")
          /\ UNCHANGED <<outputs, written>>
       \/ /\ Raise("WriteError")
          /\ outputs' = Store(outputs, output_filename, Empty)
          /\ UNCHANGED written
       \/ /\ outputs' = Store(outputs, output_filename, WriteXYZ(dimer, comment))
          /\ written' = written \cup {<<Job(args), output_filename>>}
          /\ pc' = "print"
          /\ UNCHANGED error
    /\ UNCHANGED <<fileSystem, run, loopVars, args, locals, printed, reads, prevOutputs>>

\* line 63 and the return: after the call on line 75 comes the call on
\* line 76, after that the next cluster
PrintSaved ==
    /\ pc = "print"
    /\ call \in {1, 2}
    /\ printed' = Append(printed, <<"Saved: ">> \o output_filename)
    /\ molecule' = None /\ cluster' = None /\ dimer' = None
    /\ output_filename' = NoName /\ comment' = NoName
    /\ IF call = 1
       THEN /\ call' = 2
            /\ args' = Args(molecule_file, cluster_file, Presets[2])
            /\ pc' = "read_mol"
       ELSE /\ call' = 0
            /\ args' = None
            /\ pc' = "next_clu"
    /\ UNCHANGED <<fileSystem, outputs, run, molIter, cluIter, molecule_file,
                   cluster_file, error, history>>

\* the script is started again in the same working directory
Rerun ==
    /\ pc = "done"
    /\ run < MaxRuns
    /\ run' = run + 1
    /\ prevOutputs' = outputs
    /\ pc' = "list_mol"
    /\ molIter' = <<>> /\ cluIter' = <<>>
    /\ molecule_file' = NoName /\ cluster_file' = NoName
    /\ printed' = <<>>
    /\ reads' = {} /\ written' = {}
    /\ UNCHANGED <<fileSystem, outputs, call, args, locals, error>>

Next ==
    \/ ListMolecules
    \/ NextMolecule
    \/ ListClusters
    \/ NextCluster
    \/ ReadMolecule
    \/ ReadCluster
    \/ CentreBoth
    \/ RotateCluster
    \/ OffsetCluster
    \/ Combine
    \/ MakeNames
    \/ WriteDimer
    \/ PrintSaved
    \/ Rerun

Spec == Init /\ [][Next]_vars

(* ---------------------- make_dimer_xyz on its own ---------------------- *)
\* One call of make_dimer_xyz(molecule_file, cluster_file, distance, angle,
\* axis) on structures and parameters drawn from bounded sets.
AtomPool == {[symbol |-> "H", pos |-> <<1, -2, 0>>],
             [symbol |-> "H", pos |-> <<0, 1, 3>>],
             [symbol |-> "Ar", pos |-> <<0, 0, 0>>],
             [symbol |-> "Ar", pos |-> <<-1, 0, 2>>]}

Structures ==
    {XYZFile([i \in 1..Len(s) |-> s[i].symbol], [i \in 1..Len(s) |-> s[i].pos]) :
        s \in UNION {[1..n -> AtomPool] : n \in 1..MaxAtoms}}

Orientations == {<<0, <<1, 0, 0>>>>, <<90, <<0, 0, 1>>>>, <<90, <<1, 0, 0>>>>,
                 <<180, <<0, 1, 0>>>>}

CallArgs ==
    {Args(a_xyz, c_xyz, [distance |-> d, angle |-> o[1], axis |-> o[2]]) :
        d \in {1, 4}, o \in Orientations}

InitCall ==
    /\ cwdMolecules = <<>>
    /\ cwdClusters = <<>>
    /\ \E f \in Structures :
          parentMolecules = [n \in AllNames |-> IF n = a_xyz THEN f ELSE Missing]
    /\ \E f \in Structures :
          parentClusters = [n \in AllNames |-> IF n = c_xyz THEN f ELSE Missing]
    /\ outputs = NoFiles
    /\ run = 1
    /\ prevOutputs = NoFiles
    /\ pc = "read_mol"
    /\ molIter = <<>> /\ cluIter = <<>>
    /\ molecule_file = NoName /\ cluster_file = NoName
    /\ call = 0 /\ args \in CallArgs
    /\ molecule = None /\ cluster = None /\ dimer = None
    /\ output_filename = NoName /\ comment = NoName
    /\ printed = <<>> /\ error = "none"
    /\ reads = {} /\ written = {}

NextCall ==
    \/ ReadMolecule
    \/ ReadCluster
    \/ CentreBoth
    \/ RotateCluster
    \/ OffsetCluster
    \/ Combine
    \/ MakeNames
    \/ WriteDimer

SpecCall == InitCall /\ [][NextCall]_vars

(* ------------------------- reference quantities ------------------------ *)
IsXYZ(name) == EndsWith(name, XYZ)
XYZOnly(dir) == SelectSeq(dir, IsXYZ)

\* the file one call of make_dimer_xyz writes, from its own inputs alone
JobFile(mf, cf, preset) ==
    LET m == Centre(ReadXYZ(parentMolecules[mf]))
        c == Offset(Rotate(Centre(ReadXYZ(parentClusters[cf])), preset.axis, preset.angle),
                    preset.distance)
    IN  WriteXYZ(Add(m, c), Comment(mf, cf, preset.distance, preset.angle, preset.axis))

\* the calls of a run over the directories `mols` and `clus`, in loop order
Calls(mols, clus) ==
    [t \in 1..(2 * Len(mols) * Len(clus)) |->
        [mf     |-> mols[((t - 1) \div (2 * Len(clus))) + 1],
         cf     |-> clus[(((t - 1) \div 2) % Len(clus)) + 1],
         preset |-> Presets[((t - 1) % 2) + 1]]]

\* the working directory after the calls have written their files in order
RECURSIVE AfterCalls(_, _)
AfterCalls(files, calls) ==
    IF calls = <<>> THEN files
    ELSE AfterCalls(Store(files, OutputFilename(Head(calls).mf, Head(calls).cf,
                                                Head(calls).preset.distance,
                                                Head(calls).preset.angle),
                          JobFile(Head(calls).mf, Head(calls).cf, Head(calls).preset)),
                    Tail(calls))

SameVector(p, pden, q, qden) == VScale(qden, p) = VScale(pden, q)

(* -------------------------------- claims ------------------------------- *)

\* C1 (as stated): a complete run leaves, for every pair of a listed .xyz
\* monomer and a listed .xyz cluster, the two files <M>_<C>_D4.0_A0.0.xyz and
\* <M>_<C>_D4.0_A90.0.xyz, and the number of output files is
\* 2 x (number of .xyz monomers) x (number of .xyz clusters).
C1_TwoFilesPerPair ==
    pc = "done" =>
        /\ \A i \in 1..Len(XYZOnly(cwdMolecules)) : \A j \in 1..Len(XYZOnly(cwdClusters)) :
              \A k \in 1..2 :
                 OutputFilename(XYZOnly(cwdMolecules)[i], XYZOnly(cwdClusters)[j],
                                Presets[k].distance, Presets[k].angle) \in DOMAIN outputs
        /\ Cardinality(DOMAIN outputs)
              = 2 * Len(XYZOnly(cwdMolecules)) * Len(XYZOnly(cwdClusters))

\* C2 (as stated): two jobs of a run that differ in monomer base name, cluster
\* base name, distance or angle never write the same output file name.
C2_NoOverwrite ==
    \A v, w \in written : v[1] # w[1] => v[2] # w[2]

\* C3: the file make_dimer_xyz writes holds (atoms of M) + (atoms of C) atoms:
\* the monomer's atoms in input order, then the cluster's atoms in input
\* order, labels unchanged, each at the position the transformed monomer or
\* cluster gives it; reading the file back yields that many atoms.
C3_DimerAtoms ==
    pc = "print" =>
        LET m == ReadXYZ(parentMolecules[args.molecule_file])
            c == ReadXYZ(parentClusters[args.cluster_file])
            f == outputs[output_filename]
            r == ReadXYZ(f)
            nm == Len(m.symbols)
            nc == Len(c.symbols)
        IN  /\ f.kind = "xyz"
            /\ f.natoms = nm + nc
            /\ Len(r.symbols) = nm + nc
            /\ Len(r.positions) = nm + nc
            /\ r.symbols = m.symbols \o c.symbols
            /\ \A i \in 1..nm :
                  SameVector(r.positions[i], r.den, molecule.positions[i], molecule.den)
            /\ \A j \in 1..nc :
                  SameVector(r.positions[nm + j], r.den, cluster.positions[j], cluster.den)

\* a dimer of a two-atom monomer and an identical two-atom cluster has been written
C3_Witness ==
    /\ pc = "print"
    /\ parentMolecules[a_xyz] = parentClusters[c_xyz]
    /\ Len(dimer.symbols) = 4
    /\ dimer.symbols[1] # dimer.symbols[2]

\* C4: a listed name that does not end in .xyz is never read and is part of
\* no call, an abort happens only inside a call on two .xyz names, and a
\* complete run leaves exactly the files that the calls over the .xyz entries
\* alone write.
C4_NonXYZIgnored ==
    /\ \A r \in reads : IsXYZ(r[2])
    /\ args # None => IsXYZ(args.molecule_file) /\ IsXYZ(args.cluster_file)
    /\ pc = "aborted" => args # None
    /\ pc = "done" =>
          outputs = AfterCalls(prevOutputs,
                               Calls(XYZOnly(cwdMolecules), XYZOnly(cwdClusters)))

\* a run over directories that both hold a non-.xyz entry has completed
C4_Witness ==
    /\ pc = "done"
    /\ n_txt \in Range(cwdMolecules)
    /\ c_XYZ \in Range(cwdClusters)
    /\ Cardinality(DOMAIN outputs) = 2

\* C5: with an empty molecules directory the run goes from the listing
\* straight to its end: nothing is read, written or printed, no error is
\* raised and no output file exists, whatever the clusters directory holds.
C5_EmptyMolecules ==
    /\ [](cwdMolecules = <<>> =>
            /\ pc \in {"list_mol", "next_mol", "done"}
            /\ reads = {} /\ written = {} /\ printed = <<>>
            /\ error = "none"
            /\ outputs = NoFiles)
    /\ [][(cwdMolecules = <<>> /\ pc = "list_mol" => pc' = "next_mol")
          /\ (cwdMolecules = <<>> /\ pc = "next_mol" => pc' = "done")]_vars

\* a run with an empty molecules directory and two clusters has completed
C5_Witness ==
    /\ cwdMolecules = <<>>
    /\ pc = "done"
    /\ Len(cwdClusters) = 2
    /\ c_xyz \in Range(cwdClusters)

ReadFails ==
    \/ pc = "read_mol" /\ parentMolecules[args.molecule_file].kind # "xyz"
    \/ pc = "read_clu" /\ parentClusters[args.cluster_file].kind # "xyz"
WriteFails == pc = "write" /\ pc' # "print"

\* C6 (as stated): the step at which a job fails ends the run and neither
\* changes a file of the working directory nor prints.
C6_FailingJobWritesNothing ==
    [][(ReadFails \/ WriteFails) =>
          pc' = "aborted" /\ outputs' = outputs /\ printed' = printed]_vars

\* C6 (amended): a failing read, parse or write ends the run at that job:
\* nothing happens afterwards and the failing job prints nothing; a failing
\* read or parse changes no file; a failing write changes no file but,
\* possibly, the failing job's own output file, which it may leave empty.
C6_AbortStops ==
    [][/\ pc = "aborted" => UNCHANGED vars
       /\ ReadFails => pc' = "aborted" /\ outputs' = outputs /\ printed' = printed
       /\ WriteFails =>
             /\ pc' = "aborted"
             /\ printed' = printed
             /\ DOMAIN outputs' \subseteq DOMAIN outputs \cup {output_filename}
             /\ \A n \in DOMAIN outputs : n # output_filename => outputs'[n] = outputs[n]
             /\ \/ outputs' = outputs
                \/ /\ output_filename \in DOMAIN outputs'
                   /\ outputs'[output_filename] = Empty]_vars

\* a run has been ended by a failure after earlier jobs wrote and printed
C6_Witness ==
    /\ pc = "aborted"
    /\ error # "none"
    /\ Len(printed) >= 1
    /\ \E n \in DOMAIN outputs : outputs[n].kind = "xyz"

\* C7: a complete run started where a complete run ended leaves the output
\* files exactly as it found them, and reads only listed names from
\* ../molecules and ../clusters, never an output file.
C7_RerunIdempotent ==
    /\ (run > 1 /\ pc = "done") => outputs = prevOutputs
    /\ \A r \in reads :
          /\ r[1] \in {"../molecules/", "../clusters/"}
          /\ r[2] \in Range(cwdMolecules) \cup Range(cwdClusters)
          /\ r[2] \notin DOMAIN outputs

\* a second run of eight jobs, two pairs of which share their file names, has completed
C7_Witness ==
    /\ run = 2
    /\ pc = "done"
    /\ Len(printed) = 8
    /\ Cardinality(DOMAIN outputs) = 6

CentredAtOrigin(a) == CenterOfMass(a).num = Zero3
CentredAt(a, v) == CenterOfMass(a).num = VScale(CenterOfMass(a).den, v)

\* C8: once the cluster has been centred, rotated and offset, its centre of
\* mass is (0, 0, distance) and the monomer's is the origin; the offset step
\* leaves the monomer alone and moves every cluster atom by `distance` along
\* z, its x and y unchanged.
C8_OffsetAlongZ ==
    /\ [](pc \in {"combine", "name", "write", "print"} =>
            /\ CentredAtOrigin(molecule)
            /\ CentredAt(cluster, <<0, 0, args.distance>>))
    /\ [](pc \in {"rotate", "offset"} =>
            CentredAtOrigin(molecule) /\ CentredAtOrigin(cluster))
    /\ [][pc = "offset" =>
            /\ molecule' = molecule
            /\ Len(cluster'.positions) = Len(cluster.positions)
            /\ \A i \in 1..Len(cluster.positions) :
                  SameVector(cluster'.positions[i], cluster'.den,
                             VAdd(cluster.positions[i],
                                  <<0, 0, args.distance * cluster.den>>),
                             cluster.den)]_vars

\* a cluster of two atoms of different mass, off centre in its file, has
\* been turned by 90 degrees and offset
C8_Witness ==
    /\ pc = "combine"
    /\ args.angle = 90
    /\ Len(cluster.symbols) = 2
    /\ cluster.symbols[1] # cluster.symbols[2]
    /\ ~CentredAtOrigin(ReadXYZ(parentClusters[c_xyz]))
    /\ ~CentredAtOrigin(ReadXYZ(parentMolecules[a_xyz]))

\* C9 (as stated): after a complete run every job's output file holds what
\* that job writes from its own inputs, so the files do not depend on the
\* order of the jobs.
C9_OrderIndependent ==
    pc = "done" =>
        \A i \in 1..Len(XYZOnly(cwdMolecules)) : \A j \in 1..Len(XYZOnly(cwdClusters)) :
           \A k \in 1..2 :
              LET mf == XYZOnly(cwdMolecules)[i]
                  cf == XYZOnly(cwdClusters)[j]
                  name == OutputFilename(mf, cf, Presets[k].distance, Presets[k].angle)
              IN  /\ name \in DOMAIN outputs
                  /\ outputs[name] = JobFile(mf, cf, Presets[k])

\* C10 (as stated): every name a job reads was listed, and no run ends with a
\* listed .xyz name not found at the path its job reads.
C10_ListedIsReadable ==
    /\ \A r \in reads : r[2] \in Range(cwdMolecules) \cup Range(cwdClusters)
    /\ error # "FileNotFoundError"
====
